---- MODULE Spec2Model ----
(***************************************************************************)
(* A model of the raqote backend of iced (raqote/src/backend.rs): the      *)
(* primitive-tree walk of Backend::draw_primitive with its transform and   *)
(* clip bookkeeping, the glyph cache, the named-font table, the coverage   *)
(* to pixel composition, Backend::draw, Backend::measure and the three     *)
(* mutexes of the Backend.                                                 *)
(***************************************************************************)
EXTENDS Integers, Sequences, FiniteSets, TLC

VARIABLES
    fonts,            \* Backend.fonts: name -> parsed font
    glyph_positions,  \* Backend.glyph_positions: the scratch buffer
    glyph_cache,      \* Backend.glyph_cache: raster key -> bitmap
    draw_target,      \* the raqote::DrawTarget handed to draw
    parseCalls,       \* calls received by fontdue::Font::from_bytes
    rasterizeCalls,   \* calls received by fontdue::Font::rasterize
    layoutCalls,      \* calls received by Layout::layout_horizontal in the last call
    lastCall,         \* the last draw or measure call and its arguments
    calls,            \* number of draw and measure calls made
    pixIn,            \* composition of one pixel: the color and coverage byte
    pixOut,           \* composition of one pixel: the packed pixel
    pc,               \* concurrent callers: position of each caller
    arg,              \* concurrent callers: the font each caller references
    holder            \* concurrent callers: owner of each mutex

vars == <<fonts, glyph_positions, glyph_cache, draw_target, parseCalls,
          rasterizeCalls, layoutCalls, lastCall, calls, pixIn, pixOut,
          pc, arg, holder>>

(***************************************************************************)
(* f32 arithmetic.  A finite non-negative f32 is m * 2^e with m = 0, or    *)
(* 2^23 <= m < 2^24 (24 significant bits); results are rounded to nearest, *)
(* ties to even.  The values met here lie in [2^-8, 2^8), far from the     *)
(* subnormal and overflow ranges.                                          *)
(***************************************************************************)
MantBits == 24

Pow2(n) == 2 ^ n

F32Zero == [m |-> 0, e |-> 0]

F32One == [m |-> Pow2(MantBits - 1), e |-> -(MantBits - 1)]

\* m may have reached 2^24 by rounding up: renormalise.
F32Norm(m, e) ==
    IF m = Pow2(MantBits) THEN [m |-> Pow2(MantBits - 1), e |-> e + 1]
    ELSE [m |-> m, e |-> e]

\* Long division n / d, one quotient bit per step, until the quotient has
\* 24 significant bits; then round to nearest, ties to even.
RECURSIVE F32DivStep(_, _, _, _)
F32DivStep(q, rem, d, e) ==
    IF q >= Pow2(MantBits - 1)
    THEN LET up == (2 * rem > d) \/ (2 * rem = d /\ q % 2 = 1)
         IN  F32Norm(IF up THEN q + 1 ELSE q, e)
    ELSE F32DivStep(2 * q + (IF 2 * rem >= d THEN 1 ELSE 0),
                    (2 * rem) % d, d, e - 1)

\* (n as f32) / (d as f32) for integers 0 <= n <= d < 2^24, d > 0.
F32Div(n, d) ==
    IF n = 0 THEN F32Zero ELSE F32DivStep(n \div d, n % d, d, 0)

\* The number of low bits the 32-bit product h * 256 + l must lose to fit
\* in 24 bits.
RECURSIVE DropBits(_, _)
DropBits(h, s) ==
    IF h < Pow2(MantBits - 8 + s) THEN s ELSE DropBits(h, s + 1)

\* x * (n as f32) for an integer 0 <= n <= 255: the exact product, rounded.
\* The product of a 24-bit and an 8-bit number is kept as h * 256 + l.
F32MulByte(x, n) ==
    IF x.m = 0 \/ n = 0 THEN F32Zero
    ELSE LET a == x.m \div 256
             b == x.m % 256
             h == a * n + (b * n) \div 256
             l == (b * n) % 256
             s == DropBits(h, 0)
             q == h * Pow2(8 - s) + l \div Pow2(s)
             rem == l % Pow2(s)
             half == IF s = 0 THEN 0 ELSE Pow2(s - 1)
             up == s > 0 /\ (rem > half \/ (rem = half /\ q % 2 = 1))
         IN  F32Norm(IF up THEN q + 1 ELSE q, x.e + s)

\* f32::floor followed by `as u32`, for a non-negative value below 2^24.
F32FloorU32(x) ==
    IF x.m = 0 \/ -x.e >= MantBits THEN 0
    ELSE IF x.e >= 0 THEN x.m * Pow2(x.e)
    ELSE x.m \div Pow2(-x.e)

(***************************************************************************)
(* u32 words.  A u32 is kept as two 16-bit halves, hi * 2^16 + lo.         *)
(***************************************************************************)
HalfWord == Pow2(16)

U32(n) == [hi |-> (n \div HalfWord) % HalfWord, lo |-> n % HalfWord]

\* x << 8 on a u32: the bits shifted past bit 31 are lost.
Shl8(x) == [hi |-> (x.hi % 256) * 256 + x.lo \div 256,
            lo |-> (x.lo % 256) * 256]

\* x << k for k a multiple of 8 below 32.
RECURSIVE ShlU32(_, _)
ShlU32(x, k) == IF k = 0 THEN x ELSE ShlU32(Shl8(x), k - 8)

RECURSIVE BitOr(_, _)
BitOr(a, b) ==
    IF a = 0 THEN b
    ELSE IF b = 0 THEN a
    ELSE (IF a % 2 = 1 \/ b % 2 = 1 THEN 1 ELSE 0)
         + 2 * BitOr(a \div 2, b \div 2)

\* x | y on u32.
OrU32(x, y) == [hi |-> BitOr(x.hi, y.hi), lo |-> BitOr(x.lo, y.lo)]

(***************************************************************************)
(* Colors.  An iced Color has four f32 channels in [0, 1].                 *)
(***************************************************************************)
\* Color::from_rgb8: each 8-bit channel divided by 255.0, alpha 1.0.
ColorFromRgb8(r, g, b) ==
    [r |-> F32Div(r, 255), g |-> F32Div(g, 255), b |-> F32Div(b, 255),
     a |-> F32One]

\* Color::from_rgb(1.0, 1.0, 1.0), the color of the overlay text.
White == [r |-> F32One, g |-> F32One, b |-> F32One, a |-> F32One]

(***************************************************************************)
(* Coverage to pixel composition (the glyph loop's inner loop).            *)
(***************************************************************************)
\* (channel * *cov as f32).round() as u32: what rounding instead of
\* flooring would give.
ChannelRounded(c, cov) ==
    LET x == F32MulByte(c, cov)
        fl == F32FloorU32(x)
        twice == F32FloorU32([m |-> x.m, e |-> x.e + 1])
    IN  IF twice - 2 * fl = 1 THEN fl + 1 ELSE fl

\* (channel * *cov as f32).floor() as u32
Channel(c, cov) == F32FloorU32(F32MulByte(c, cov))

Pixel(color, cov) ==
    OrU32(OrU32(OrU32(ShlU32(U32(Channel(color.a, cov)), 24),
                      ShlU32(U32(Channel(color.r, cov)), 16)),
                ShlU32(U32(Channel(color.g, cov)), 8)),
          U32(Channel(color.b, cov)))

\* image_data: one pixel per coverage byte, in order.
ImageData(color, coverage) ==
    [i \in 1..Len(coverage) |-> Pixel(color, coverage[i])]

(***************************************************************************)
(* The draw target (raqote::DrawTarget), as the compositor uses it: the    *)
(* current transform (a translation <<x, y>>), the clip stack, and the     *)
(* drawing operations received during the current draw call, each with the *)
(* transform and clip stack in force when it was received.                 *)
(***************************************************************************)
Identity == <<0, 0>>

NewDrawTarget(transform, clips) ==
    [transform |-> transform, clips |-> clips, ops |-> <<>>]

\* raqote::Transform::create_translation(x, y)
CreateTranslation(x, y) == <<x, y>>

\* DrawTarget::set_transform
SetTransform(dt, t) == [dt EXCEPT !.transform = t]

\* A Translate or Clip node that leaves its own transform in force.
KeepTransform(dt, t) == dt

\* draw_target.set_transform(&prev_transform)
RestoreTransform(dt, t) == SetTransform(dt, t)

\* DrawTarget::push_clip_rect
PushClipRect(dt, rect) == [dt EXCEPT !.clips = Append(@, rect)]

\* DrawTarget::pop_clip
PopClip(dt) == [dt EXCEPT !.clips = SubSeq(@, 1, Len(@) - 1)]

\* DrawTarget::fill
Fill(dt, path, source) ==
    [dt EXCEPT !.ops = Append(@, [op |-> "fill", path |-> path,
                                  source |-> source,
                                  transform |-> dt.transform,
                                  clips |-> dt.clips])]

\* DrawTarget::draw_image_at
DrawImageAt(dt, x, y, image) ==
    [dt EXCEPT !.ops = Append(@, [op |-> "draw_image_at", x |-> x, y |-> y,
                                  image |-> image,
                                  transform |-> dt.transform,
                                  clips |-> dt.clips])]

\* raqote::IntRect::new(IntPoint(x, y), IntPoint(x + width, y + height))
IntRect(bounds) ==
    [min |-> <<bounds.x, bounds.y>>,
     max |-> <<bounds.x + bounds.width, bounds.y + bounds.height>>]

(***************************************************************************)
(* Quad: the rounded-rectangle path and the two fills.                     *)
(***************************************************************************)
RectPath(border_radius, x, y, xmax, ymax) ==
    IF border_radius = 0
    THEN << <<"move_to", x, y>>, <<"line_to", xmax, y>>,
            <<"line_to", xmax, ymax>>, <<"line_to", x, ymax>>, <<"close">> >>
    ELSE << <<"move_to", x, y + border_radius>>,
            <<"quad_to", x, y, x + border_radius, y>>,
            <<"line_to", xmax - border_radius, y>>,
            <<"quad_to", xmax, y, xmax, y + border_radius>>,
            <<"line_to", xmax, ymax - border_radius>>,
            <<"quad_to", xmax, ymax, xmax - border_radius, ymax>>,
            <<"line_to", x + border_radius, ymax>>,
            <<"quad_to", x, ymax, x, ymax - border_radius>>,
            <<"close">> >>

\* (channel * 255.0) as u8
ChannelU8(c) == F32FloorU32(F32MulByte(c, 255))

\* Source::Solid(SolidSource::from_unpremultiplied_argb(a, r, g, b))
SolidSource(color) ==
    <<ChannelU8(color.a), ChannelU8(color.r), ChannelU8(color.g),
      ChannelU8(color.b)>>

DrawQuad(dt, q) ==
    LET b == q.bounds
        outer == RectPath(q.border_radius, b.x, b.y,
                          b.x + b.width, b.y + b.height)
        inner == RectPath(q.border_radius,
                          b.x + q.border_width, b.y + q.border_width,
                          b.x + b.width - q.border_width,
                          b.y + b.height - q.border_width)
    IN  Fill(Fill(dt, outer, SolidSource(q.border_color)),
             inner, SolidSource(q.background))

(***************************************************************************)
(* The font collaborator (fontdue).  A parsed font is named by the bytes   *)
(* it was parsed from; the fallback font is parsed in Backend::new.        *)
(***************************************************************************)
FallbackFont == "FALLBACK"

\* Font byte blobs the host may supply; the malformed one fails to parse.
GoodBytes == {"bytes1", "bytes2"}
BadBytes == {"garbage"}
FontNames == {"A", "B"}

FontDefault == [kind |-> "Default"]
FontExternal(name, bytes) == [kind |-> "External", name |-> name, bytes |-> bytes]

\* fontdue::Font::from_bytes
FromBytes(bytes) ==
    IF bytes \in GoodBytes THEN [ok |-> TRUE, font |-> bytes]
    ELSE [ok |-> FALSE, font |-> "error"]

\* The coverage mask the rasterizer produces tells the glyph apart: one byte
\* for the font, one for the character, one for the pixel size.
FontByte(font) ==
    CASE font = FallbackFont -> 255
      [] font = "bytes1" -> 170
      [] font = "bytes2" -> 85

CharByte(c) ==
    CASE c = "a" -> 200
      [] c = "b" -> 100
      [] c = "x" -> 50
      [] c = "y" -> 25

\* fontdue::Font::rasterize(c, px): (Metrics, coverage)
Rasterize(font, c, px) ==
    <<[width |-> px, height |-> px],
      <<FontByte(font), CharByte(c), px>> >>

\* The characters layout places: include_whitespace is false.
Visible(text) == SelectSeq(text, LAMBDA c : c # " ")

\* fontdue::layout::Layout::layout_horizontal with one font and one style:
\* one GlyphPosition per placed character, its key (c, px, font_index).
LayoutHorizontal(fontList, style, settings) ==
    LET g == Visible(style.text)
    IN  [i \in 1..Len(g) |->
            [key |-> [c |-> g[i], px |-> style.px,
                      font_index |-> style.font_index],
             x |-> settings.x + (i - 1) * style.px,
             y |-> settings.y + style.px,
             width |-> style.px,
             height |-> style.px]]

(***************************************************************************)
(* The font lookup, the layout and the glyph loop of a call.  The state of  *)
(* a call is a record of the fields of Backend, the draw target and the    *)
(* calls the collaborators have received (see Current below).              *)
(***************************************************************************)
\* A lookup that never finds the name.
FontNeverKnown(table, name) == FALSE

\* fonts.contains_key(name)
FontKnown(table, name) == name \in DOMAIN table

\* fonts.entry(name).or_insert(ok)
OrInsertFont(table, name, font) ==
    IF name \in DOMAIN table THEN table ELSE (name :> font) @@ table

\* An error arm that stores the fallback font under the name.
StoreFallbackOnError(st, name) ==
    [st |-> [st EXCEPT !.fonts = OrInsertFont(@, name, FallbackFont)],
     font |-> FallbackFont]

\* Err(err) => { warn!(...); &self.fallback_font }
FallbackOnError(st, name) == [st |-> st, font |-> FallbackFont]

\* let font = match font { ... }: the font used by this call, and the state
\* with the named-font table and the parser's calls updated.
ResolveFont(st, font) ==
    IF font.kind = "Default" THEN [st |-> st, font |-> FallbackFont]
    ELSE IF FontKnown(st.fonts, font.name)
    THEN [st |-> st, font |-> st.fonts[font.name]]
    ELSE LET parsed == FromBytes(font.bytes)
             st1 == [st EXCEPT !.parseCalls =
                        Append(@, [name |-> font.name, bytes |-> font.bytes])]
         IN  IF parsed.ok
             THEN LET table == OrInsertFont(st1.fonts, font.name, parsed.font)
                  IN  [st |-> [st1 EXCEPT !.fonts = table],
                       font |-> table[font.name]]
             ELSE FallbackOnError(st1, font.name)

HorizontalAlign(a) ==
    CASE a = "Left" -> "Left" [] a = "Center" -> "Center" [] a = "Right" -> "Right"

VerticalAlign(a) ==
    CASE a = "Top" -> "Top" [] a = "Center" -> "Middle" [] a = "Bottom" -> "Bottom"

\* let layout_settings = fontdue::layout::LayoutSettings { ... } of the Text arm
TextLayoutSettings(t, scale_factor) ==
    [x |-> t.bounds.x * scale_factor,
     y |-> t.bounds.y * scale_factor,
     max_width |-> (t.bounds.x + t.bounds.width) * scale_factor,
     max_height |-> (t.bounds.y + t.bounds.height) * scale_factor,
     horizontal_align |-> HorizontalAlign(t.horizontal_alignment),
     vertical_align |-> VerticalAlign(t.vertical_alignment),
     wrap_style |-> "Word", wrap_hard_breaks |-> TRUE,
     include_whitespace |-> FALSE, coordinate_system |-> "Down"]

\* The TextStyle of the Text arm: px is *size, font_index is 0.
TextStyle(content, size) == [text |-> content, px |-> size, font_index |-> 0]

\* text_layout.layout_horizontal(&[font], &[&style], &settings, &mut glyph_positions):
\* the buffer then holds the placements of this layout.
RunLayout(st, font, style, settings) ==
    [st EXCEPT
        !.glyph_positions = LayoutHorizontal(<<font>>, style, settings),
        !.layoutCalls = Append(@, [fonts |-> <<font>>, style |-> style,
                                   settings |-> settings])]

\* A lookup that never finds the key.
CacheNeverHas(cache, key) == FALSE

\* the occupied case of glyph_cache.entry(key)
CacheHas(cache, key) == key \in DOMAIN cache

\* glyph_cache.entry(glyph_pos.key).or_insert_with(|| font.rasterize(c, *size))
GetOrRasterize(st, font, key, size) ==
    IF CacheHas(st.glyph_cache, key) THEN st
    ELSE [st EXCEPT
            !.glyph_cache = (key :> Rasterize(font, key.c, size)) @@ @,
            !.rasterizeCalls = Append(@, [font |-> font, c |-> key.c,
                                          px |-> size])]

\* One turn of `for glyph_pos in glyph_positions.drain(..)`.
DrawGlyph(st, font, t, glyph_pos) ==
    LET st1 == GetOrRasterize(st, font, glyph_pos.key, t.size)
        entry == st1.glyph_cache[glyph_pos.key]
        metrics == entry[1]
        coverage == entry[2]
        image == [width |-> metrics.width, height |-> metrics.height,
                  data |-> ImageData(t.color, coverage)]
    IN  [st1 EXCEPT !.dt = DrawImageAt(@, glyph_pos.x,
                                       glyph_pos.y - glyph_pos.height, image)]

RECURSIVE DrawGlyphs(_, _, _, _)
DrawGlyphs(st, font, t, positions) ==
    IF positions = <<>> THEN st
    ELSE DrawGlyphs(DrawGlyph(st, font, t, Head(positions)), font, t,
                    Tail(positions))

\* The Text arm of draw_primitive.
DrawText(st, scale_factor, t) ==
    LET settings == TextLayoutSettings(t, scale_factor)
        r == ResolveFont(st, t.font)
        st1 == [r.st EXCEPT !.glyph_positions = <<>>]
        st2 == RunLayout(st1, r.font, TextStyle(t.content, t.size), settings)
        st3 == DrawGlyphs(st2, r.font, t, st2.glyph_positions)
    IN  [st3 EXCEPT !.glyph_positions = <<>>]

(***************************************************************************)
(* draw_primitive: the walk over the primitive tree.                       *)
(***************************************************************************)
RECURSIVE DrawPrimitive(_, _, _)

\* for primitive in primitives { self.draw_primitive(...) }
RECURSIVE DrawAll(_, _, _)
DrawAll(st, scale_factor, primitives) ==
    IF primitives = <<>> THEN st
    ELSE DrawAll(DrawPrimitive(st, scale_factor, Head(primitives)),
                 scale_factor, Tail(primitives))

\* The Clip arm.
DrawClip(st, scale_factor, p) ==
    LET dt1 == PushClipRect(st.dt, IntRect(p.bounds))
        prev_transform == dt1.transform
        dt2 == SetTransform(dt1, CreateTranslation(p.bounds.x + p.offset[1],
                                                   p.bounds.y + p.offset[2]))
        st1 == DrawPrimitive([st EXCEPT !.dt = dt2], scale_factor, p.content)
    IN  [st1 EXCEPT !.dt = PopClip(RestoreTransform(@, prev_transform))]

\* The Translate arm.
DrawTranslate(st, scale_factor, p) ==
    LET prev_transform == st.dt.transform
        dt1 == SetTransform(st.dt, CreateTranslation(p.translation[1],
                                                     p.translation[2]))
        st1 == DrawPrimitive([st EXCEPT !.dt = dt1], scale_factor, p.content)
    IN  [st1 EXCEPT !.dt = RestoreTransform(@, prev_transform)]

DrawPrimitive(st, scale_factor, p) ==
    CASE p.kind = "None" -> st
      [] p.kind = "Group" -> DrawAll(st, scale_factor, p.primitives)
      [] p.kind = "Text" -> DrawText(st, scale_factor, p)
      [] p.kind = "Quad" -> [st EXCEPT !.dt = DrawQuad(@, p)]
      [] p.kind \in {"Image", "Svg", "Mesh2D"} -> st
      [] p.kind = "Clip" -> DrawClip(st, scale_factor, p)
      [] p.kind = "Translate" -> DrawTranslate(st, scale_factor, p)
      [] p.kind = "Cached" -> DrawPrimitive(st, scale_factor, p.cache)

(***************************************************************************)
(* Backend::draw                                                           *)
(***************************************************************************)
Rect(x, y, w, h) == [x |-> x, y |-> y, width |-> w, height |-> h]

OverlaySize == 14

\* The Text primitive draw builds for one overlay string.
OverlayPrimitive(text, viewport_size) ==
    [kind |-> "Text", content |-> text,
     bounds |-> Rect(0, 0, viewport_size[1], viewport_size[2]),
     color |-> White, size |-> OverlaySize, font |-> FontDefault,
     horizontal_alignment |-> "Left", vertical_alignment |-> "Top"]

\* for text in overlay_text.iter() { self.draw_primitive(...) }
RECURSIVE DrawOverlay(_, _, _)
DrawOverlay(st, viewport, overlay_text) ==
    IF overlay_text = <<>> THEN st
    ELSE DrawOverlay(DrawPrimitive(st, viewport.scale_factor,
                                   OverlayPrimitive(Head(overlay_text),
                                                    viewport.physical_size)),
                     viewport, Tail(overlay_text))

\* A draw that renders the overlay first.
OverlayFirst(st, viewport, primitive, overlay_text) ==
    DrawPrimitive(DrawOverlay(st, viewport, overlay_text),
                  viewport.scale_factor, primitive)

Draw(st, viewport, primitive, overlay_text) ==
    DrawOverlay(DrawPrimitive(st, viewport.scale_factor, primitive),
                viewport, overlay_text)

(***************************************************************************)
(* Backend::measure                                                        *)
(***************************************************************************)
Max(a, b) == IF a >= b THEN a ELSE b

RECURSIVE FoldWidth(_, _)
FoldWidth(acc, positions) ==
    IF positions = <<>> THEN acc
    ELSE FoldWidth(Max(acc, Head(positions).x + Head(positions).width),
                   Tail(positions))

RECURSIVE FoldHeight(_, _)
FoldHeight(acc, positions) ==
    IF positions = <<>> THEN acc
    ELSE FoldHeight(Max(acc, Head(positions).y), Tail(positions))

MeasureLayoutSettings(bounds) ==
    [x |-> 0, y |-> 0, max_width |-> bounds[1], max_height |-> bounds[2],
     horizontal_align |-> "Left", vertical_align |-> "Top",
     wrap_style |-> "Word", wrap_hard_breaks |-> TRUE,
     include_whitespace |-> FALSE, coordinate_system |-> "Down"]

Measure(st, contents, size, font, bounds) ==
    LET r == ResolveFont(st, font)
        st1 == RunLayout(r.st, r.font, TextStyle(contents, size),
                         MeasureLayoutSettings(bounds))
    IN  [st |-> st1,
         result |-> <<FoldWidth(0, st1.glyph_positions),
                      FoldHeight(0, st1.glyph_positions)>>]

(***************************************************************************)
(* Inputs: the primitives, fonts, viewports and overlays the host supplies. *)
(***************************************************************************)
MaxCalls == 3
MaxDepth == 3

TextSize == 16

Red == ColorFromRgb8(255, 0, 0)
Teal == ColorFromRgb8(0, 128, 128)

FontRefs ==
    {FontDefault, FontExternal("A", "bytes1"), FontExternal("A", "garbage"),
     FontExternal("B", "bytes2"), FontExternal("B", "garbage")}

Contents == {<<"a">>, <<"a", " ", "b">>}

TextBounds == Rect(10, 4, 100, 20)

TextPrim(content, font) ==
    [kind |-> "Text", content |-> content, bounds |-> TextBounds,
     color |-> Red, size |-> TextSize, font |-> font,
     horizontal_alignment |-> "Left", vertical_alignment |-> "Top"]

QuadPrim ==
    [kind |-> "Quad", bounds |-> Rect(2, 3, 40, 10), background |-> Teal,
     border_radius |-> 2, border_width |-> 1, border_color |-> Red]

NonePrim == [kind |-> "None"]
ImagePrim == [kind |-> "Image"]
GroupPrim(primitives) == [kind |-> "Group", primitives |-> primitives]
ClipPrim(bounds, offset, content) ==
    [kind |-> "Clip", bounds |-> bounds, offset |-> offset, content |-> content]
TranslatePrim(translation, content) ==
    [kind |-> "Translate", translation |-> translation, content |-> content]
CachedPrim(cache) == [kind |-> "Cached", cache |-> cache]

\* The primitives of a sequence of calls: one Text, or a Group of two Texts
\* that reference the same font.
CallPrimitives ==
    {TextPrim(c, f) : c \in Contents, f \in FontRefs}
    \cup {GroupPrim(<<TextPrim(<<"a">>, f), TextPrim(<<"a">>, f)>>) : f \in FontRefs}

Viewport(w, h, scale_factor) ==
    [physical_size |-> <<w, h>>, scale_factor |-> scale_factor]

Viewports == {Viewport(100, 20, 1), Viewport(200, 40, 2)}

\* Overlay strings use characters the primitives do not.
Overlays == {<<>>, << <<"x">> >>, << <<"y">>, <<"x", "y">> >>}

MeasureBounds == <<100, 20>>

\* The trees of one frame, by nesting depth.
Leaves == {NonePrim, ImagePrim, QuadPrim, TextPrim(<<"a">>, FontDefault)}
Offsets == {<<5, 0>>, <<3, 7>>}
ClipBounds == {Rect(1, 2, 30, 30)}
ClipOffsets == {<<0, 4>>}

RECURSIVE Trees(_)
Trees(d) ==
    IF d = 0 THEN Leaves
    ELSE LET sub == Trees(d - 1)
         IN  Leaves
             \cup {TranslatePrim(o, c) : o \in Offsets, c \in sub}
             \cup {ClipPrim(b, o, c) : b \in ClipBounds, o \in ClipOffsets, c \in sub}
             \cup {CachedPrim(c) : c \in sub}
             \cup {GroupPrim(<<c, l>>) : c \in sub, l \in Leaves}

\* The transform and clip stack the host may leave on the draw target.
StartTransforms == {Identity, <<2, 9>>}
StartClips == {<<>>, <<IntRect(Rect(0, 0, 50, 50))>>}

(***************************************************************************)
(* The state machine.                                                      *)
(***************************************************************************)
\* The backend and the draw target at the start of a call.
Current(dt) ==
    [fonts |-> fonts, glyph_positions |-> glyph_positions,
     glyph_cache |-> glyph_cache, dt |-> dt, parseCalls |-> parseCalls,
     rasterizeCalls |-> rasterizeCalls, layoutCalls |-> <<>>]

Commit(st) ==
    /\ fonts' = st.fonts
    /\ glyph_positions' = st.glyph_positions
    /\ glyph_cache' = st.glyph_cache
    /\ draw_target' = st.dt
    /\ parseCalls' = st.parseCalls
    /\ rasterizeCalls' = st.rasterizeCalls
    /\ layoutCalls' = st.layoutCalls

InitBackend(transform, clips) ==
    /\ fonts = <<>>
    /\ glyph_positions = <<>>
    /\ glyph_cache = <<>>
    /\ draw_target = NewDrawTarget(transform, clips)
    /\ parseCalls = <<>>
    /\ rasterizeCalls = <<>>
    /\ layoutCalls = <<>>
    /\ lastCall = [op |-> "none"]
    /\ calls = 0

InitPixel == pixIn = [op |-> "none"] /\ pixOut = [op |-> "none"]

InitLocks == pc = <<>> /\ arg = <<>> /\ holder = <<>>

\* Backend::draw on the draw target; the operations recorded are those of
\* this call.
DrawCall(viewport, primitive, overlay_text) ==
    LET start == [draw_target EXCEPT !.ops = <<>>]
    IN  /\ Commit(Draw(Current(start), viewport, primitive, overlay_text))
        /\ lastCall' = [op |-> "draw", viewport |-> viewport,
                        primitive |-> primitive,
                        overlay_text |-> overlay_text,
                        before |-> Current(start)]
        /\ calls' = calls + 1
        /\ UNCHANGED <<pixIn, pixOut, pc, arg, holder>>

\* Backend::measure
MeasureCall(contents, size, font, bounds) ==
    LET r == Measure(Current(draw_target), contents, size, font, bounds)
    IN  /\ Commit(r.st)
        /\ lastCall' = [op |-> "measure", contents |-> contents,
                        size |-> size, font |-> font, bounds |-> bounds,
                        before |-> Current(draw_target), result |-> r.result]
        /\ calls' = calls + 1
        /\ UNCHANGED <<pixIn, pixOut, pc, arg, holder>>

\* A sequence of draw and measure calls on one Backend.
DrawText1 ==
    /\ calls < MaxCalls
    /\ \E p \in CallPrimitives : DrawCall(Viewport(100, 20, 1), p, <<>>)

MeasureText ==
    /\ calls < MaxCalls
    /\ \E f \in FontRefs :
          MeasureCall(<<"a", "b">>, TextSize, f, MeasureBounds)

Init == InitBackend(Identity, <<>>) /\ InitPixel /\ InitLocks

Next == DrawText1 \/ MeasureText

Spec == Init /\ [][Next]_vars

\* One frame on a target the host prepared: a tree without overlay, or a
\* shallow tree with an overlay in a scaled viewport.
DrawTree ==
    /\ lastCall.op = "none"
    /\ \E p \in Trees(MaxDepth) : DrawCall(Viewport(100, 20, 1), p, <<>>)

DrawOverlaid ==
    /\ lastCall.op = "none"
    /\ \E p \in Trees(1), v \in Viewports, o \in Overlays : DrawCall(v, p, o)

InitFrame ==
    /\ \E t \in StartTransforms, c \in StartClips : InitBackend(t, c)
    /\ InitPixel /\ InitLocks

NextFrame == DrawTree \/ DrawOverlaid

SpecFrame == InitFrame /\ [][NextFrame]_vars

(***************************************************************************)
(* The composition of one pixel, for every coverage byte and opaque colors *)
(* whose channels each take every 8-bit value.                             *)
(***************************************************************************)
MaxByte == 255

PixelColors ==
    {<<c, MaxByte - c, (7 * c) % (MaxByte + 1)>> : c \in 0..MaxByte}
    \cup {<<255, 0, 0>>, <<0, 0, 0>>, <<255, 255, 255>>}

ComposePixel ==
    /\ pixOut.op = "none"
    /\ pixOut' = [op |-> "done",
                  pixel |-> Pixel(ColorFromRgb8(pixIn.r, pixIn.g, pixIn.b),
                                  pixIn.cov)]
    /\ UNCHANGED <<fonts, glyph_positions, glyph_cache, draw_target,
                   parseCalls, rasterizeCalls, layoutCalls, lastCall, calls,
                   pixIn, pc, arg, holder>>

InitPixelInputs ==
    /\ InitBackend(Identity, <<>>)
    /\ InitLocks
    /\ \E rgb \in PixelColors, cov \in 0..MaxByte :
          pixIn = [op |-> "pixel", r |-> rgb[1], g |-> rgb[2], b |-> rgb[3],
                   cov |-> cov]
    /\ pixOut = [op |-> "none"]

NextPixel == ComposePixel

SpecPixel == InitPixelInputs /\ [][NextPixel]_vars

\* The four 8-bit fields of a packed pixel.
AlphaOf(w) == w.hi \div 256
RedOf(w) == w.hi % 256
GreenOf(w) == w.lo \div 256
BlueOf(w) == w.lo % 256

(* C7: for every coverage byte cov and opaque 8-bit color (r, g, b, 255), the
   packed pixel is a 32-bit word whose alpha field is cov and whose red, green
   and blue fields are floor(r*cov/255), floor(g*cov/255), floor(b*cov/255). *)
C7_PixelChannels ==
    pixOut.op = "done" =>
        LET w == pixOut.pixel
        IN  /\ w.hi \in 0..(HalfWord - 1) /\ w.lo \in 0..(HalfWord - 1)
            /\ AlphaOf(w) = (MaxByte * pixIn.cov) \div 255
            /\ AlphaOf(w) = pixIn.cov
            /\ RedOf(w) = (pixIn.r * pixIn.cov) \div 255
            /\ GreenOf(w) = (pixIn.g * pixIn.cov) \div 255
            /\ BlueOf(w) = (pixIn.b * pixIn.cov) \div 255

\* cov = 128 on the color (255, 0, 0, 255) has been composed: A = 128, R = 128.
C7_Witness ==
    /\ pixOut.op = "done"
    /\ pixIn.cov = 128 /\ pixIn.r = 255 /\ pixIn.g = 0 /\ pixIn.b = 0
    /\ pixOut.pixel = [hi |-> 128 * 256 + 128, lo |-> 0]

(***************************************************************************)
(* Properties of a sequence of calls (Spec).                               *)
(***************************************************************************)
\* The raster key of a call the rasterizer received: the Text arm looks up
\* (c, px, font_index 0) and rasterizes (c, px) on a miss.
KeyOfCall(rc) == [c |-> rc.c, px |-> rc.px, font_index |-> 0]

\* The coverage bytes an image was composed from, read back from the alpha
\* field of its pixels (every color drawn here is opaque).
CoverageOf(image) == [i \in 1..Len(image.data) |-> AlphaOf(image.data[i])]

ImageOps == {i \in 1..Len(draw_target.ops) : draw_target.ops[i].op = "draw_image_at"}

C1_OncePerKey ==
    /\ \A i, j \in 1..Len(rasterizeCalls) :
          i < j => KeyOfCall(rasterizeCalls[i]) # KeyOfCall(rasterizeCalls[j])
    /\ \A i \in 1..Len(rasterizeCalls) :
          LET rc == rasterizeCalls[i]
          IN  /\ KeyOfCall(rc) \in DOMAIN glyph_cache
              /\ glyph_cache[KeyOfCall(rc)] = Rasterize(rc.font, rc.c, rc.px)
    /\ \A k \in DOMAIN glyph_cache :
          \E i \in 1..Len(rasterizeCalls) : KeyOfCall(rasterizeCalls[i]) = k
    /\ lastCall.op = "draw" =>
          \A i \in ImageOps :
             \E k \in DOMAIN glyph_cache :
                /\ CoverageOf(draw_target.ops[i].image) = glyph_cache[k][2]
                /\ draw_target.ops[i].image.width = glyph_cache[k][1].width
                /\ draw_target.ops[i].image.height = glyph_cache[k][1].height

C1_EntriesKept ==
    \A k \in DOMAIN glyph_cache :
        k \in DOMAIN glyph_cache' /\ glyph_cache'[k] = glyph_cache[k]

(* C1: over any sequence of Text draws the rasterizer is invoked at most once
   per raster key; the entry stored by that invocation is the pair every
   composited glyph is taken from, and no entry is ever removed or changed. *)
C1_GlyphCache == [](C1_OncePerKey) /\ [][C1_EntriesKept]_vars

\* A second draw found the key of its glyph in the cache: two calls, two
\* lookups of one key, one rasterization.
C1_Witness ==
    /\ calls = 2
    /\ lastCall.op = "draw"
    /\ lastCall.primitive = TextPrim(<<"a">>, FontDefault)
    /\ lastCall.before.glyph_cache # <<>>
    /\ Len(rasterizeCalls) = 1
    /\ Len(draw_target.ops) = 1

\* The font reference of the last call (a Group here holds Texts of one font).
CallFont ==
    IF lastCall.op = "measure" THEN lastCall.font
    ELSE IF lastCall.primitive.kind = "Group"
    THEN lastCall.primitive.primitives[1].font
    ELSE lastCall.primitive.font

(* C4: every glyph a Text draw composites is the bitmap that the font the
   Text is drawn with (the font its layout was given) produces for the
   character and size, whatever was drawn before. *)
C4_BitmapOfOwnFont ==
    lastCall.op = "draw" =>
        \A i \in ImageOps :
            CoverageOf(draw_target.ops[i].image)[1]
                = FontByte(layoutCalls[1].fonts[1])

(* C5 as stated: the parser is invoked at most once for a name and its bytes,
   whether the bytes parse or not. *)
C5_ParsedOncePerName ==
    \A i, j \in 1..Len(parseCalls) : i < j => parseCalls[i] # parseCalls[j]

(* C5 amended: once the parser has succeeded for a name it is never invoked
   for that name again, and the table holds exactly the names it succeeded
   for; bytes that fail to parse are parsed again by each call that references
   a name the table does not hold. *)
C5_ParsedOnceWhenOk ==
    /\ \A i, j \in 1..Len(parseCalls) :
          (i < j /\ parseCalls[i].name = parseCalls[j].name)
             => ~FromBytes(parseCalls[i].bytes).ok
    /\ \A n \in FontNames :
          n \in DOMAIN fonts <=>
             \E i \in 1..Len(parseCalls) :
                parseCalls[i].name = n /\ FromBytes(parseCalls[i].bytes).ok
    /\ (lastCall.op # "none" /\ CallFont.kind = "External"
          /\ CallFont.name \notin DOMAIN lastCall.before.fonts)
         => /\ Len(parseCalls) > Len(lastCall.before.parseCalls)
            /\ parseCalls[Len(lastCall.before.parseCalls) + 1]
                  = [name |-> CallFont.name, bytes |-> CallFont.bytes]

\* A call referenced a name that an earlier call had parsed: no new parse.
C5_Witness ==
    /\ calls >= 2
    /\ lastCall.op # "none"
    /\ CallFont = FontExternal("A", "bytes1")
    /\ "A" \in DOMAIN lastCall.before.fonts
    /\ Len(parseCalls) = 1

\* The last call referenced an unknown name with bytes that do not parse.
ParseFailed ==
    /\ lastCall.op # "none"
    /\ CallFont.kind = "External"
    /\ CallFont.name \notin DOMAIN lastCall.before.fonts
    /\ ~FromBytes(CallFont.bytes).ok

\* The number of glyphs a draw of the primitive composites (Text or a Group
\* of Texts).
RECURSIVE GlyphCount(_)
GlyphCount(p) ==
    IF p.kind = "Text" THEN Len(Visible(p.content))
    ELSE IF p.kind = "Group" /\ p.primitives # <<>>
    THEN GlyphCount(Head(p.primitives))
         + GlyphCount(GroupPrim(Tail(p.primitives)))
    ELSE 0

(* C6: when the bytes of an external font fail to parse, the call completes:
   its layout and every rasterization it causes use the fallback font, a draw
   composites every glyph of its text, and the named-font table is unchanged. *)
C6_FallbackOnParseError ==
    ParseFailed =>
        /\ fonts = lastCall.before.fonts
        /\ CallFont.name \notin DOMAIN fonts
        /\ Len(layoutCalls) >= 1
        /\ \A i \in 1..Len(layoutCalls) : layoutCalls[i].fonts = <<FallbackFont>>
        /\ \A i \in 1..Len(rasterizeCalls) :
              i > Len(lastCall.before.rasterizeCalls)
                 => rasterizeCalls[i].font = FallbackFont
        /\ lastCall.op = "draw" =>
              Len(draw_target.ops) = GlyphCount(lastCall.primitive)
        /\ lastCall.op = "measure" => lastCall.result[1] > 0

\* A draw with unparsable bytes rasterized and composited its glyphs.
C6_Witness ==
    /\ ParseFailed
    /\ lastCall.op = "draw"
    /\ Len(rasterizeCalls) > Len(lastCall.before.rasterizeCalls)
    /\ Len(draw_target.ops) = 2

(***************************************************************************)
(* Properties of one frame (SpecFrame).                                    *)
(***************************************************************************)
Ops == draw_target.ops

RECURSIVE OverlayGlyphs(_)
OverlayGlyphs(overlay_text) ==
    IF overlay_text = <<>> THEN <<>>
    ELSE Visible(Head(overlay_text)) \o OverlayGlyphs(Tail(overlay_text))

\* The operations of the primitive tree come first in the record of a draw,
\* by the number of glyphs of the overlay.
TreeOpCount == Len(Ops) - Len(OverlayGlyphs(lastCall.overlay_text))

\* The number of operations a leaf sends to the draw target.
LeafOpCount(l) ==
    CASE l.kind = "Quad" -> 2
      [] l.kind = "Text" -> Len(Visible(l.content))
      [] OTHER -> 0

Scoped(p) == p.kind \in {"Clip", "Translate"}

(* C2: after draw_primitive finishes a Clip or Translate node, whatever it
   nests, the transform and the clip stack of the draw target are those of
   before the node; the sibling that follows such a node in a Group is drawn
   under the transform and clip stack in force before the node started. *)
C2_ScopeRestored ==
    lastCall.op = "draw" =>
        LET p == lastCall.primitive
            before == lastCall.before.dt
        IN  /\ Scoped(p) =>
                 /\ draw_target.transform = before.transform
                 /\ draw_target.clips = before.clips
            /\ (p.kind = "Group" /\ Scoped(p.primitives[1])) =>
                 /\ draw_target.transform = before.transform
                 /\ draw_target.clips = before.clips
                 /\ \A i \in 1..TreeOpCount :
                       i > TreeOpCount - LeafOpCount(p.primitives[2])
                          => /\ Ops[i].transform = before.transform
                             /\ Ops[i].clips = before.clips

\* A Quad that follows a Clip holding a Translate was drawn, on a target that
\* came with a transform and a clip of its own.
C2_Witness ==
    /\ lastCall.op = "draw"
    /\ lastCall.primitive.kind = "Group"
    /\ lastCall.primitive.primitives[1].kind = "Clip"
    /\ lastCall.primitive.primitives[1].content.kind = "Translate"
    /\ lastCall.primitive.primitives[1].content.content = QuadPrim
    /\ lastCall.primitive.primitives[2] = QuadPrim
    /\ lastCall.before.dt.transform # Identity
    /\ lastCall.before.dt.clips # <<>>
    /\ Len(Ops) = 4
    /\ Ops[1].transform # lastCall.before.dt.transform
    /\ Len(Ops[1].clips) = 2

\* Translation by offset composed with a translation.
Compose(offset, transform) ==
    <<offset[1] + transform[1], offset[2] + transform[2]>>

(* C3: the child of Translate(offset, child) is drawn under the translation
   by offset composed with the transform in force when the node was entered;
   the leaf of Translate(o1, Translate(o2, leaf)) is drawn under o1 + o2. *)
C3_TranslationComposed ==
    lastCall.op = "draw" =>
        LET p == lastCall.primitive
            entry == lastCall.before.dt.transform
        IN  /\ (p.kind = "Translate" /\ p.content = QuadPrim) =>
                  Ops[1].transform = Compose(p.translation, entry)
            /\ (p.kind = "Translate" /\ p.content.kind = "Translate"
                  /\ p.content.content = QuadPrim) =>
                  Ops[1].transform =
                     Compose(p.translation,
                             Compose(p.content.translation, entry))

(* C8: the layout of a Text primitive is requested at size * scale factor,
   with origin (bounds.x, bounds.y) and maximum extent (bounds.width,
   bounds.height) each multiplied by the scale factor, and its glyphs are
   rasterized at that scaled size. *)
C8_LayoutScaled ==
    (lastCall.op = "draw" /\ lastCall.primitive.kind = "Text") =>
        LET t == lastCall.primitive
            sf == lastCall.viewport.scale_factor
            lc == layoutCalls[1]
        IN  /\ lc.style.px = t.size * sf
            /\ lc.settings.x = t.bounds.x * sf
            /\ lc.settings.y = t.bounds.y * sf
            /\ lc.settings.max_width = t.bounds.width * sf
            /\ lc.settings.max_height = t.bounds.height * sf
            /\ rasterizeCalls[1].px = t.size * sf

\* The character each image operation shows, read back from its coverage.
CharOfOp(op) ==
    IF op.op = "draw_image_at" THEN CoverageOf(op.image)[2] ELSE 0

(* C9: in one draw call every operation of the primitive tree reaches the draw
   target before any operation of the overlay, and the overlay texts are drawn
   in the order given. *)
C9_OverlayOnTop ==
    lastCall.op = "draw" =>
        LET glyphs == OverlayGlyphs(lastCall.overlay_text)
        IN  /\ TreeOpCount >= 0
            /\ \A i \in 1..TreeOpCount :
                  CharOfOp(Ops[i]) \notin {CharByte("x"), CharByte("y")}
            /\ \A i \in 1..Len(glyphs) :
                  CharOfOp(Ops[TreeOpCount + i]) = CharByte(glyphs[i])

\* A Group of a Text and a Quad was drawn below a two-line overlay.
C9_Witness ==
    /\ lastCall.op = "draw"
    /\ lastCall.overlay_text = << <<"y">>, <<"x", "y">> >>
    /\ lastCall.primitive = GroupPrim(<<TextPrim(<<"a">>, FontDefault), QuadPrim>>)
    /\ Len(Ops) = 6

(***************************************************************************)
(* Concurrent callers of one Backend (SpecLock): measure calls and one     *)
(* Text draw, each a sequence of steps between which the others may run.   *)
(* A MutexGuard bound by `let` is released at the end of its scope, the     *)
(* later binding first; the guard of text_layout is a temporary of the      *)
(* layout statement and is released when that statement ends.              *)
(***************************************************************************)
NumMeasurers == 2

Callers == {<<"draw", 1>>} \cup {<<"measure", i>> : i \in 1..NumMeasurers}
Locks == {"fonts", "glyph_positions", "text_layout"}
Free == <<"free", 0>>

LockFontRefs ==
    {FontDefault, FontExternal("A", "bytes1"), FontExternal("A", "garbage")}

LockText == <<"a", "b">>

Here == [Current(draw_target) EXCEPT !.layoutCalls = layoutCalls]

Step(p, from, to) == pc[p] = from /\ pc' = [pc EXCEPT ![p] = to]

\* Mutex::lock: blocks while another caller holds the mutex.
Acquire(p, l) == holder[l] = Free /\ holder' = [holder EXCEPT ![l] = p]

\* A fonts guard that is a temporary of the font lookup: released once the
\* font is resolved.
FontsGuardDropped(h) == [h EXCEPT !["fonts"] = Free]

\* `let mut fonts = self.fonts.lock().unwrap()`: the guard lives to the end of
\* the arm (draw_primitive) or of the function (measure).
FontsGuardHeld(h) == h

\* let mut fonts = self.fonts.lock().unwrap();
LockFonts(p) ==
    /\ Step(p, "start", "fonts_locked")
    /\ Acquire(p, "fonts")
    /\ UNCHANGED <<fonts, glyph_positions, glyph_cache, draw_target,
                   parseCalls, rasterizeCalls, layoutCalls, lastCall, calls,
                   pixIn, pixOut, arg>>

\* let font = match font { ... };
ResolveStep(p) ==
    /\ Step(p, "fonts_locked", "font_resolved")
    /\ LET r == ResolveFont(Here, arg[p].font)
       IN  /\ Commit(r.st)
           /\ arg' = [arg EXCEPT ![p].resolved = r.font]
    /\ holder' = FontsGuardHeld(holder)
    /\ UNCHANGED <<lastCall, calls, pixIn, pixOut>>

\* let mut glyph_positions = self.glyph_positions.lock().unwrap();
\* followed in draw_primitive by glyph_positions.clear();
LockGlyphPositions(p) ==
    /\ Step(p, "font_resolved", "positions_locked")
    /\ Acquire(p, "glyph_positions")
    /\ glyph_positions' = IF p[1] = "draw" THEN <<>> ELSE glyph_positions
    /\ UNCHANGED <<fonts, glyph_cache, draw_target, parseCalls,
                   rasterizeCalls, layoutCalls, lastCall, calls, pixIn,
                   pixOut, arg>>

\* self.text_layout.lock().unwrap()
LockTextLayout(p) ==
    /\ Step(p, "positions_locked", "layout_locked")
    /\ Acquire(p, "text_layout")
    /\ UNCHANGED <<fonts, glyph_positions, glyph_cache, draw_target,
                   parseCalls, rasterizeCalls, layoutCalls, lastCall, calls,
                   pixIn, pixOut, arg>>

\* .layout_horizontal(...); the temporary guard of text_layout is dropped.
LayoutStep(p) ==
    /\ Step(p, "layout_locked", "laid_out")
    /\ LET settings == IF p[1] = "draw"
                       THEN TextLayoutSettings(TextPrim(LockText, arg[p].font), 1)
                       ELSE MeasureLayoutSettings(MeasureBounds)
       IN  Commit(RunLayout(Here, arg[p].resolved,
                            TextStyle(LockText, TextSize), settings))
    /\ holder' = [holder EXCEPT !["text_layout"] = Free]
    /\ UNCHANGED <<lastCall, calls, pixIn, pixOut, arg>>

\* The glyph loop of draw_primitive, or the folds of measure; then the guard
\* of glyph_positions is dropped.
FinishStep(p) ==
    /\ Step(p, "laid_out", "positions_released")
    /\ LET st == DrawGlyphs(Here, arg[p].resolved,
                            TextPrim(LockText, arg[p].font), glyph_positions)
       IN  Commit(IF p[1] = "draw"
                  THEN [st EXCEPT !.glyph_positions = <<>>]
                  ELSE Here)
    /\ holder' = [holder EXCEPT !["glyph_positions"] = Free]
    /\ UNCHANGED <<lastCall, calls, pixIn, pixOut, arg>>

\* The guard of fonts is dropped and the call returns.
ReturnStep(p) ==
    /\ Step(p, "positions_released", "done")
    /\ holder' = [holder EXCEPT !["fonts"] = Free]
    /\ UNCHANGED <<fonts, glyph_positions, glyph_cache, draw_target,
                   parseCalls, rasterizeCalls, layoutCalls, lastCall, calls,
                   pixIn, pixOut, arg>>

InitCallers ==
    /\ InitBackend(Identity, <<>>)
    /\ InitPixel
    /\ pc = [p \in Callers |-> "start"]
    /\ arg \in [Callers -> {[font |-> f, resolved |-> "none"] : f \in LockFontRefs}]
    /\ holder = [l \in Locks |-> Free]

NextLock ==
    \E p \in Callers :
        \/ LockFonts(p)
        \/ ResolveStep(p)
        \/ LockGlyphPositions(p)
        \/ LockTextLayout(p)
        \/ LayoutStep(p)
        \/ FinishStep(p)
        \/ ReturnStep(p)

SpecLock == InitCallers /\ [][NextLock]_vars

\* Between acquiring the font-table lock and releasing all locks.
InCall(p) == pc[p] \notin {"start", "done"}

\* At a step that waits for no lock.
Running(p) ==
    pc[p] \in {"fonts_locked", "layout_locked", "laid_out", "positions_released"}

\* At a step that takes a lock, which is free.
CanLock(p) ==
    \/ ENABLED LockFonts(p)
    \/ ENABLED LockGlyphPositions(p)
    \/ ENABLED LockTextLayout(p)

(* C10: no two callers are at the same time between acquiring the font-table
   lock and releasing all their locks, each lock held is held by the one
   caller inside, and while a caller has not returned some caller can take a
   step: no interleaving deadlocks. *)
C10_CallsSerialize ==
    /\ \A p, q \in Callers : (InCall(p) /\ InCall(q)) => p = q
    /\ \A l \in Locks : holder[l] # Free => InCall(holder[l])
    /\ \/ \A p \in Callers : pc[p] = "done"
       \/ \E p \in Callers : Running(p) \/ CanLock(p)

\* The draw holds all three locks while one measure call waits for the font
\* table and the other has returned.
C10_Witness ==
    /\ pc[<<"draw", 1>>] = "layout_locked"
    /\ \A l \in Locks : holder[l] = <<"draw", 1>>
    /\ pc[<<"measure", 1>>] = "start"
    /\ pc[<<"measure", 2>>] = "done"
    /\ ~ENABLED LockFonts(<<"measure", 1>>)

====
